---- MODULE Spec2Model ----
(***************************************************************************)
(* Model of rosenfeldb/tour: two Dash applications over one itinerary      *)
(* table.  src/app.py is the interactive path walker (callback update_map) *)
(* and src/sim.py the autonomous simulator (callback update_simulation).   *)
(* Both build their transition tables at import time from the per-traveler *)
(* groups of the itinerary table.                                          *)
(*                                                                         *)
(* A Python dict is a TLA+ function whose DOMAIN is the set of keys, a     *)
(* list or tuple is a sequence, None is the string "None", and a float     *)
(* probability count/total is the pair <<count, total>>.                   *)
(***************************************************************************)
EXTENDS Integers, Sequences, FiniteSets, TLC

VARIABLES
    groups,                    \* df_sorted.groupby("travelerNames"): traveler -> places
    todo,                      \* travelers the build loops have not reached yet
    pc,                        \* "build" | "normalize" | "ready"; serving: "walker" | "simulator"
    memoryless_transitions,    \* sim.py:14
    path_based_transitions,    \* sim.py:15
    first_city_counts,         \* sim.py:16
    traveler_paths,            \* sim.py:17
    first_city_probs,          \* sim.py:32
    memoryless_probabilities,  \* sim.py:33
    path_based_probabilities,  \* sim.py:37
    transition_paths,          \* app.py:13
    app_memoryless_transitions,\* app.py:14 (memoryless_transitions of app.py)
    path_memory,               \* dcc.Store "path-memory" (app.py:63, sim.py:64)
    mode,                      \* value of "mode-dropdown"
    selected_start_city,       \* value of "city-dropdown" (app.py)
    clickData,                 \* clickData of "travel-map" (app.py)
    n_clicks,                  \* n_clicks of "start-btn" (sim.py)
    interval_disabled,         \* disabled of "interval-component" (sim.py)
    travel_path,               \* children of "travel-path"
    last,                      \* the last callback: what fired it, what it raised
    run,                       \* the current simulation: the modes its callbacks ran in, its ticks
    destinations,              \* app.py:120, next_destinations as (place, count) items in dict order
    top_destinations           \* app.py:122-125, the candidate markers as (place, count, probability)

tables == <<memoryless_transitions, path_based_transitions, first_city_counts,
            traveler_paths, first_city_probs, memoryless_probabilities,
            path_based_probabilities, transition_paths, app_memoryless_transitions>>
\* the tables of sim.py, and those of them its callback never looks a key up in
sim_tables == <<memoryless_transitions, path_based_transitions, first_city_counts,
                traveler_paths, first_city_probs, memoryless_probabilities,
                path_based_probabilities>>
sim_counts == <<memoryless_transitions, path_based_transitions, first_city_counts,
                first_city_probs>>
\* the tables of app.py
app_tables == <<transition_paths, app_memoryless_transitions>>

vars == <<groups, todo, pc, memoryless_transitions, path_based_transitions,
          first_city_counts, traveler_paths, first_city_probs,
          memoryless_probabilities, path_based_probabilities, transition_paths,
          app_memoryless_transitions, path_memory, mode, selected_start_city,
          clickData, n_clicks, interval_disabled, travel_path, last, run,
          destinations, top_destinations>>

query == <<destinations, top_destinations>>

(***************************************************************************)
(* Bounds and the input universe.                                          *)
(***************************************************************************)
\* longest traveler path of the datasets the build specification loads
MaxPathLen == 4
\* longest traveler path of the datasets the two applications run on
MaxTourLen == 3
\* longest visited sequence a session is followed to
MaxVisited == 3
\* cap of the start button's click counter
MaxClicks == 2
\* most entries, and largest count, of the distributions the top-N query is run on
MaxEntries == 6
MaxCount == 2
\* app.py:122, the slice [:5]
TopN == 5

Places == {"Paris", "Rome", "Venice"}
\* the places of the datasets the two applications run on
TourPlaces == {"Paris", "Venice"}
None == "None"
\* groupby iterates its keys in sorted order
TravelerOrder == <<"A", "B">>
Travelers == {TravelerOrder[i] : i \in 1..Len(TravelerOrder)}
Modes == {"memoryless", "path-based"}

PathsUpTo(P, n) == UNION {[1..k -> P] : k \in 1..n}
\* every traveler present in the table has at least one row
Datasets(P, n) == [Travelers -> PathsUpTo(P, n)]

EmptyDict == [k \in {} |-> 0]
Get(d, k, default) == IF k \in DOMAIN d THEN d[k] ELSE default

\* a lookup that stores the default under a missing key, as d[k] on a defaultdict
AfterGets_storing_default(d, keys) ==
    [k \in DOMAIN d \cup keys |-> IF k \in DOMAIN d THEN d[k] ELSE EmptyDict]

\* the dict after d.get(k, default) for every k of keys: get stores nothing
AfterGets(d, keys) == d
Last(s) == s[Len(s)]
IsPrefix(p, s) == Len(p) <= Len(s) /\ SubSeq(s, 1, Len(p)) = p

RECURSIVE SumValues(_)
SumValues(d) ==
    IF DOMAIN d = {} THEN 0
    ELSE LET k == CHOOSE x \in DOMAIN d : TRUE
         IN d[k] + SumValues([x \in DOMAIN d \ {k} |-> d[x]])

(***************************************************************************)
(* Table construction (sim.py:14-40, app.py:13-27).                        *)
(***************************************************************************)
\* a counter that records an occurrence without counting it: d[k] = 1
Incr_sets_one(d, k) ==
    IF k \in DOMAIN d THEN [d EXCEPT ![k] = 1] ELSE d @@ (k :> 1)

\* defaultdict(int): d[k] += 1
Incr(d, k) ==
    IF k \in DOMAIN d THEN [d EXCEPT ![k] = @ + 1] ELSE d @@ (k :> 1)

\* defaultdict(lambda: defaultdict(int)): t[s][k] += 1
Incr2(t, s, k) ==
    IF s \in DOMAIN t THEN [t EXCEPT ![s] = Incr(@, k)] ELSE t @@ (s :> (k :> 1))

\* a path-based key that keeps only the immediate predecessor
SimHistoryKey_predecessor(places, i) == <<places[i]>>

\* sim.py:28, the key of the path-based table at loop index i (1-based here):
\* tuple(places[:i+1]) is the whole history up to and including places[i]
SimHistoryKey(places, i) == SubSeq(places, 1, i)

\* sim.py:25-28, iterations i..len(places)-1 of the inner loop
RECURSIVE SimPairs(_, _, _)
SimPairs(T, places, i) ==
    IF i > Len(places) - 1 THEN T
    ELSE SimPairs(
           [T EXCEPT
              !.memoryless_transitions = Incr2(@, places[i], places[i + 1]),
              !.path_based_transitions =
                  Incr2(@, SimHistoryKey(places, i), places[i + 1])],
           places, i + 1)

\* sim.py:21-28, the body of the loop over the groups
SimAddTraveler(T, traveler, places) ==
    LET T1 == [T EXCEPT !.traveler_paths =
                   IF places \in DOMAIN @ THEN [@ EXCEPT ![places] = traveler]
                   ELSE @ @@ (places :> traveler)]
        T2 == IF places # <<>>
              THEN [T1 EXCEPT !.first_city_counts = Incr(@, places[1])]
              ELSE T1
    IN SimPairs(T2, places, 1)

\* app.py:20, prev_cities = tuple(places[:i+1])
AppHistoryKey(places, i) == SubSeq(places, 1, i)

\* app.py:19-27, iterations i..len(places)-1 of the inner loop
RECURSIVE AppPairs(_, _, _)
AppPairs(T, places, i) ==
    IF i > Len(places) - 1 THEN T
    ELSE LET prev_cities == AppHistoryKey(places, i)
             next_city == places[i + 1]
             tp0 == IF prev_cities \notin DOMAIN T.transition_paths
                    THEN T.transition_paths @@ (prev_cities :> EmptyDict)
                    ELSE T.transition_paths
         IN AppPairs(
              [transition_paths |-> [tp0 EXCEPT ![prev_cities] = Incr(@, next_city)],
               memoryless_transitions |->
                   Incr2(T.memoryless_transitions, places[i], next_city)],
              places, i + 1)

\* app.py:18-27, the body of the loop over the groups
AppAddTraveler(T, places) == AppPairs(T, places, 1)

\* a normalization that divides by the number of entries
Normalize_by_entries(counts) ==
    [k \in DOMAIN counts |-> <<counts[k], Cardinality(DOMAIN counts)>>]

\* sim.py:32-40: {key: count / sum(values)}; a probability is <<count, total>>
Normalize(counts) ==
    [k \in DOMAIN counts |-> <<counts[k], SumValues(counts)>>]

NormalizeTable(t) == [s \in DOMAIN t |-> Normalize(t[s])]

SimEmptyTables ==
    [memoryless_transitions |-> EmptyDict, path_based_transitions |-> EmptyDict,
     first_city_counts |-> EmptyDict, traveler_paths |-> EmptyDict]

AppEmptyTables ==
    [transition_paths |-> EmptyDict, memoryless_transitions |-> EmptyDict]

\* the loops of sim.py:20 and app.py:17 run over the travelers order[1..n]
RECURSIVE SimBuild(_, _, _)
SimBuild(g, order, n) ==
    IF n = 0 THEN SimEmptyTables
    ELSE SimAddTraveler(SimBuild(g, order, n - 1), order[n], g[order[n]])

RECURSIVE AppBuild(_, _, _)
AppBuild(g, order, n) ==
    IF n = 0 THEN AppEmptyTables
    ELSE AppAddTraveler(AppBuild(g, order, n - 1), g[order[n]])

\* app.py:35, the options of the start-city dropdown
sorted_places(g) == UNION {{g[t][i] : i \in 1..Len(g[t])} : t \in DOMAIN g}

(***************************************************************************)
(* Start-up as a process: the loops over the groups, then normalization.   *)
(***************************************************************************)
SimTables ==
    [memoryless_transitions |-> memoryless_transitions,
     path_based_transitions |-> path_based_transitions,
     first_city_counts |-> first_city_counts,
     traveler_paths |-> traveler_paths]

AppTables ==
    [transition_paths |-> transition_paths,
     memoryless_transitions |-> app_memoryless_transitions]

\* the layout's initial property values (app.py:47-63, sim.py:56-64)
WalkerStore == [visited |-> <<>>, current |-> None]
SimStore == [visited |-> <<>>, current |-> None, active |-> FALSE,
             mode |-> "memoryless"]
NoClick == [kind |-> "None", text |-> <<>>]
NoCall == [op |-> "none", exc |-> "none"]
NoRun == [modes |-> {}, ticks |-> 0]
Prompt == [kind |-> "prompt", path |-> <<>>, traveler |-> None]

WidgetsInit(store) ==
    /\ path_memory = store
    /\ mode = "memoryless"
    /\ selected_start_city = None
    /\ clickData = NoClick
    /\ n_clicks = 0
    /\ interval_disabled = TRUE
    /\ travel_path = Prompt
    /\ last = NoCall
    /\ run = NoRun

\* no top-N query is under way
QueryIdle ==
    /\ destinations = <<>>
    /\ top_destinations = <<>>

BuildInit ==
    /\ groups \in Datasets(Places, MaxPathLen)
    /\ todo = TravelerOrder
    /\ pc = "build"
    /\ memoryless_transitions = EmptyDict
    /\ path_based_transitions = EmptyDict
    /\ first_city_counts = EmptyDict
    /\ traveler_paths = EmptyDict
    /\ first_city_probs = EmptyDict
    /\ memoryless_probabilities = EmptyDict
    /\ path_based_probabilities = EmptyDict
    /\ transition_paths = EmptyDict
    /\ app_memoryless_transitions = EmptyDict
    /\ WidgetsInit(WalkerStore)
    /\ QueryIdle

widgets_of_apps == <<path_memory, mode, selected_start_city, clickData, n_clicks,
                     interval_disabled, travel_path, last, run>>
widgets == <<widgets_of_apps, query>>

\* one iteration of the loops sim.py:20-28 and app.py:17-27, which run over the
\* same groups in the same order
BuildGroup ==
    /\ pc = "build"
    /\ todo # <<>>
    /\ LET traveler == Head(todo)
           S == SimAddTraveler(SimTables, traveler, groups[traveler])
           A == AppAddTraveler(AppTables, groups[traveler])
       IN /\ memoryless_transitions' = S.memoryless_transitions
          /\ path_based_transitions' = S.path_based_transitions
          /\ first_city_counts' = S.first_city_counts
          /\ traveler_paths' = S.traveler_paths
          /\ transition_paths' = A.transition_paths
          /\ app_memoryless_transitions' = A.memoryless_transitions
    /\ todo' = Tail(todo)
    /\ pc' = IF Tail(todo) = <<>> THEN "normalize" ELSE "build"
    /\ UNCHANGED <<groups, first_city_probs, memoryless_probabilities,
                   path_based_probabilities, widgets>>

\* sim.py:31-40
NormalizeAll ==
    /\ pc = "normalize"
    /\ first_city_probs' = Normalize(first_city_counts)
    /\ memoryless_probabilities' = NormalizeTable(memoryless_transitions)
    /\ path_based_probabilities' = NormalizeTable(path_based_transitions)
    /\ pc' = "ready"
    /\ UNCHANGED <<groups, todo, memoryless_transitions, path_based_transitions,
                   first_city_counts, traveler_paths, transition_paths,
                   app_memoryless_transitions, widgets>>

BuildNext == BuildGroup \/ NormalizeAll

BuildSpec == BuildInit /\ [][BuildNext]_vars

\* the state an application serves from: every table built (sim.py:14-40,
\* app.py:13-27) from a dataset g
Served(g, app) ==
    LET S == SimBuild(g, TravelerOrder, Len(TravelerOrder))
        A == AppBuild(g, TravelerOrder, Len(TravelerOrder))
    IN /\ groups = g
       /\ todo = <<>>
       /\ pc = app
       /\ memoryless_transitions = S.memoryless_transitions
       /\ path_based_transitions = S.path_based_transitions
       /\ first_city_counts = S.first_city_counts
       /\ traveler_paths = S.traveler_paths
       /\ first_city_probs = Normalize(S.first_city_counts)
       /\ memoryless_probabilities = NormalizeTable(S.memoryless_transitions)
       /\ path_based_probabilities = NormalizeTable(S.path_based_transitions)
       /\ transition_paths = A.transition_paths
       /\ app_memoryless_transitions = A.memoryless_transitions

(***************************************************************************)
(* The interactive walker, src/app.py.                                     *)
(***************************************************************************)
\* app.py:130, the text of a candidate marker, f"{place} ({probability:.1f}%, {count})",
\* as the tokens the click handler's split sees
Label(place) == <<place, " (", "%, count)">>

\* the clickData payloads: None; a dict without "points"; "points" None, an empty
\* list, or a list whose first point is None, has no "text" (a visited marker,
\* app.py:103-109), has "text" None, or has a text
ClickKinds == {"no_points", "points_none", "points_empty", "point_none",
               "text_missing", "text_none"}
ClickTexts == {Label(p) : p \in Places}
ClickDatas == {[kind |-> k, text |-> <<>>] : k \in ClickKinds}
                \cup {[kind |-> "text", text |-> t] : t \in ClickTexts}

\* str.split(" (")[0]: what precedes the first " (" (a place name is one token);
\* "" when nothing does
SplitFirst(text) ==
    IF text = <<>> \/ Head(text) = " (" THEN "" ELSE Head(text)

\* app.py:85-87: the exception the click parsing raises ("none": it raises none
\* and clicked_city is `city`)
ClickedCity(cd) ==
    CASE cd.kind = "points_none" -> [exc |-> "TypeError", city |-> ""]
      [] cd.kind = "points_empty" -> [exc |-> "IndexError", city |-> ""]
      [] cd.kind = "point_none" -> [exc |-> "AttributeError", city |-> ""]
      [] cd.kind = "text_none" -> [exc |-> "AttributeError", city |-> ""]
      [] cd.kind = "text_missing" -> [exc |-> "none", city |-> ""]
      [] OTHER -> [exc |-> "none", city |-> SplitFirst(cd.text)]

\* app.py:97
Caught == {"IndexError", "AttributeError", "KeyError"}

\* app.py:85, `clickData and "points" in clickData`
HasPoints(cd) == cd.kind \notin {"None", "no_points"}

\* a walker that validates every click against the memoryless table
next_destinations_ignoring_mode(m, visited_places, current_city) ==
    Get(app_memoryless_transitions, current_city, EmptyDict)

\* app.py:88-92
next_destinations(m, visited_places, current_city) ==
    IF m = "path-based"
    THEN Get(transition_paths, visited_places, EmptyDict)
    ELSE Get(app_memoryless_transitions, current_city, EmptyDict)

\* app.py:94
ValidClick(clicked_city, dests) == clicked_city \in DOMAIN dests

\* a walker that starts over when the selected start city is not visited[0]
StartVisited_restarting(pm, start_city) ==
    IF pm.visited = <<>> \/ pm.visited[1] # start_city
    THEN <<start_city>> ELSE pm.visited

\* app.py:80-83
StartVisited(pm, start_city) ==
    IF pm.visited = <<>> THEN <<start_city>> ELSE pm.visited

NoGets == [transition_paths |-> {}, memoryless_transitions |-> {}]

\* app.py:88-92 and app.py:120: the keys one lookup of the mode's table asks for
Gets(m, visited_places, current_city) ==
    IF m = "path-based"
    THEN [transition_paths |-> {visited_places}, memoryless_transitions |-> {}]
    ELSE [transition_paths |-> {}, memoryless_transitions |-> {current_city}]

BothGets(a, b) ==
    [transition_paths |-> a.transition_paths \cup b.transition_paths,
     memoryless_transitions |-> a.memoryless_transitions
                                   \cup b.memoryless_transitions]

\* app.py:75-155: the callback's outputs; exc # "none" is an exception that
\* leaves the callback, so that no output is written; gets are the keys it looked
\* up in the two tables
update_map(start_city, cd, m, pm) ==
    IF start_city = None
    THEN [exc |-> "none", path_memory |-> pm, travel_path |-> Prompt,
          gets |-> NoGets]
    ELSE
      LET visited0 == StartVisited(pm, start_city)
          current0 == IF pm.current # None THEN pm.current ELSE start_city
          click == ClickedCity(cd)
          validated == HasPoints(cd) /\ click.exc = "none"
          taken == /\ HasPoints(cd)
                   /\ click.exc = "none"
                   /\ ValidClick(click.city,
                                 next_destinations(m, visited0, current0))
          visited1 == IF taken THEN Append(visited0, click.city) ELSE visited0
          current1 == IF taken THEN click.city ELSE current0
      IN IF HasPoints(cd) /\ click.exc \notin Caught \cup {"none"}
         THEN [exc |-> click.exc, path_memory |-> pm, travel_path |-> Prompt,
               gets |-> NoGets]
         ELSE [exc |-> "none",
               path_memory |-> [visited |-> visited1, current |-> current1],
               travel_path |-> [kind |-> "path", path |-> visited1,
                                traveler |-> None],
               gets |-> BothGets(IF validated THEN Gets(m, visited0, current0)
                                 ELSE NoGets,
                                 Gets(m, visited1, current1))]

\* Dash runs the callback and writes its outputs, unless it raised
WalkerCallback(op, start_city, cd) ==
    LET out == update_map(start_city, cd, mode, path_memory)
    IN /\ path_memory' = out.path_memory
       /\ travel_path' = IF out.exc = "none" THEN out.travel_path ELSE travel_path
       /\ last' = [op |-> op, exc |-> out.exc]
       /\ transition_paths' =
             AfterGets(transition_paths, out.gets.transition_paths)
       /\ app_memoryless_transitions' =
             AfterGets(app_memoryless_transitions,
                       out.gets.memoryless_transitions)

\* Input("city-dropdown", "value"): the user picks or clears the start city
SelectCity ==
    \E s \in sorted_places(groups) \cup {None} :
        /\ pc = "walker"
        /\ s # selected_start_city
        /\ Len(path_memory.visited) < MaxVisited
        /\ selected_start_city' = s
        /\ WalkerCallback("select", s, clickData)
        /\ UNCHANGED <<query, groups, todo, pc, sim_tables, mode, clickData,
                       n_clicks, interval_disabled, run>>

\* Input("travel-map", "clickData"): a click on the map
MapClick ==
    \E cd \in ClickDatas :
        /\ pc = "walker"
        /\ Len(path_memory.visited) < MaxVisited
        /\ clickData' = cd
        /\ WalkerCallback("click", selected_start_city, cd)
        /\ UNCHANGED <<query, groups, todo, pc, sim_tables, mode,
                       selected_start_city, n_clicks, interval_disabled, run>>

\* State("mode-dropdown", "value") of either application: changing the mode
\* runs no callback
ChangeMode ==
    \E m \in Modes :
        /\ pc \in {"walker", "simulator"}
        /\ m # mode
        /\ mode' = m
        /\ UNCHANGED <<query, groups, todo, pc, tables, path_memory, selected_start_city,
                       clickData, n_clicks, interval_disabled, travel_path, last,
                       run>>

WalkerInit ==
    /\ \E g \in Datasets(TourPlaces, MaxTourLen) : Served(g, "walker")
    /\ WidgetsInit(WalkerStore)
    /\ QueryIdle

(***************************************************************************)
(* The top-N query of the walker, app.py:120-125, over a distribution given *)
(* as its items in dict order; a place is named by the rank of its         *)
(* insertion into the dict.                                                *)
(***************************************************************************)
Distributions ==
    UNION {{[i \in 1..k |-> <<i, c[i]>>] : c \in [1..k -> 1..MaxCount]}
             : k \in 0..MaxEntries}

RECURSIVE SumCounts(_)
SumCounts(items) ==
    IF items = <<>> THEN 0 ELSE items[1][2] + SumCounts(Tail(items))

\* a stable sort by descending count puts an item behind every item of at least
\* its count that precedes it in the input
InsertByCount(sorted, item) ==
    LET k == Cardinality({i \in 1..Len(sorted) : sorted[i][2] >= item[2]})
    IN SubSeq(sorted, 1, k) \o <<item>> \o SubSeq(sorted, k + 1, Len(sorted))

\* app.py:122, sorted(items, key=lambda x: x[1], reverse=True)
RECURSIVE SortedByCount(_)
SortedByCount(items) ==
    IF items = <<>> THEN <<>>
    ELSE InsertByCount(SortedByCount(SubSeq(items, 1, Len(items) - 1)),
                       items[Len(items)])

\* app.py:122, [:5]
FirstN(s, n) == SubSeq(s, 1, IF Len(s) < n THEN Len(s) ELSE n)

TopDestinations(items) == FirstN(SortedByCount(items), TopN)

\* a total taken over the listed entries only
total_transitions_of_listed(items) == SumCounts(TopDestinations(items))

\* app.py:121
total_transitions(items) == SumCounts(items)

\* app.py:125: (count / total_transitions) * 100, as numerator and denominator
probability(count, total) ==
    IF total > 0 THEN <<count * 100, total>> ELSE <<0, 1>>

\* app.py:124-141: one candidate marker per listed entry
Markers(items) ==
    LET top == TopDestinations(items)
    IN [i \in 1..Len(top) |->
          [place |-> top[i][1], count |-> top[i][2],
           probability |-> probability(top[i][2], total_transitions(items))]]

QueryInit ==
    /\ groups = EmptyDict
    /\ todo = <<>>
    /\ pc = "query"
    /\ memoryless_transitions = EmptyDict
    /\ path_based_transitions = EmptyDict
    /\ first_city_counts = EmptyDict
    /\ traveler_paths = EmptyDict
    /\ first_city_probs = EmptyDict
    /\ memoryless_probabilities = EmptyDict
    /\ path_based_probabilities = EmptyDict
    /\ transition_paths = EmptyDict
    /\ app_memoryless_transitions = EmptyDict
    /\ WidgetsInit(WalkerStore)
    /\ destinations \in Distributions
    /\ top_destinations = <<>>

TopQuery ==
    /\ pc = "query"
    /\ top_destinations' = Markers(destinations)
    /\ pc' = "shown"
    /\ UNCHANGED <<groups, todo, tables, widgets_of_apps, destinations>>

QuerySpec == QueryInit /\ [][TopQuery]_vars

(***************************************************************************)
(* The autonomous simulator, src/sim.py.                                   *)
(***************************************************************************)
\* a draw that ignores the weights and the keys: any place of the table
WeightedChoices_any_place(probs) == TourPlaces

\* random.choices(list(d.keys()), weights=d.values())[0]: the keys a draw can
\* return are those of positive weight
WeightedChoices(probs) == {k \in DOMAIN probs : probs[k][1] > 0}

\* a simulator that samples from the memoryless table in either mode
next_options_ignoring_mode(m, pm) ==
    Get(memoryless_probabilities, pm.current, EmptyDict)

\* sim.py:102-105
next_options(m, pm) ==
    IF m = "memoryless"
    THEN Get(memoryless_probabilities, pm.current, EmptyDict)
    ELSE Get(path_based_probabilities, pm.visited, EmptyDict)

\* a simulator that stops as soon as one continuation is left
Exhausted_single_entry(options) == Cardinality(DOMAIN options) <= 1

\* sim.py:107, `if not next_options`
Exhausted(options) == DOMAIN options = {}

\* sim.py:95 and sim.py:156: the values the callback's random draw can take
\* (None where the callback draws nothing)
Draws(clicks, m, pm) ==
    IF ~pm.active
    THEN IF clicks = 0 THEN {None} ELSE WeightedChoices(first_city_probs)
    ELSE IF Exhausted(next_options(m, pm)) THEN {None}
         ELSE WeightedChoices(next_options(m, pm))

\* a start that leaves the new session inactive
FreshSession_inactive(start_city, m) ==
    [visited |-> <<start_city>>, current |-> start_city, active |-> FALSE,
     mode |-> m]

\* sim.py:96
FreshSession(start_city, m) ==
    [visited |-> <<start_city>>, current |-> start_city, active |-> TRUE,
     mode |-> m]

\* a traveler lookup keyed by the last city instead of the whole path
Completed_by_last_city(m, visited_places) ==
    IF m = "path-based"
    THEN [kind |-> "complete", path |-> visited_places,
          traveler |-> Get(traveler_paths, <<Last(visited_places)>>,
                           "Unknown Traveler")]
    ELSE [kind |-> "complete", path |-> <<>>, traveler |-> None]

\* sim.py:147-153
Completed(m, visited_places) ==
    IF m = "path-based"
    THEN [kind |-> "complete", path |-> visited_places,
          traveler |-> Get(traveler_paths, visited_places, "Unknown Traveler")]
    ELSE [kind |-> "complete", path |-> <<>>, traveler |-> None]

\* a tick that starts the path over at the sampled city
Advance_restarting(pm, next_city) ==
    [pm EXCEPT !.visited = <<next_city>>, !.current = next_city]

\* a tick that appends the city and forgets to move current
Advance_keeps_current(pm, next_city) ==
    [pm EXCEPT !.visited = Append(@, next_city)]

\* sim.py:156-158
Advance(pm, next_city) ==
    [pm EXCEPT !.visited = Append(@, next_city), !.current = next_city]

NoSimGets == [memoryless_probabilities |-> {}, path_based_probabilities |-> {},
              traveler_paths |-> {}]

\* sim.py:102-105: the key the tick looks up in the mode's table
OptionGets(m, pm) ==
    IF m = "memoryless"
    THEN [NoSimGets EXCEPT !.memoryless_probabilities = {pm.current}]
    ELSE [NoSimGets EXCEPT !.path_based_probabilities = {pm.visited}]

\* sim.py:77-191: the callback's outputs, `draw` being what random.choices returns;
\* gets are the keys it looked up in the tables
update_simulation(clicks, m, pm, draw) ==
    IF clicks = 0 /\ ~pm.active
    THEN [disabled |-> TRUE, travel_path |-> Prompt, path_memory |-> pm,
          gets |-> NoSimGets]
    ELSE IF ~pm.active
    THEN [disabled |-> FALSE,
          travel_path |-> [kind |-> "starting", path |-> <<>>, traveler |-> None],
          path_memory |-> FreshSession(draw, m),
          gets |-> NoSimGets]
    ELSE IF Exhausted(next_options(m, pm))
    THEN [disabled |-> TRUE, travel_path |-> Completed(m, pm.visited),
          path_memory |-> [pm EXCEPT !.active = FALSE],
          gets |-> [OptionGets(m, pm) EXCEPT !.traveler_paths =
                       IF m = "path-based" THEN {pm.visited} ELSE {}]]
    ELSE [disabled |-> FALSE,
          travel_path |-> [kind |-> "path", path |-> Append(pm.visited, draw),
                           traveler |-> None],
          path_memory |-> Advance(pm, draw),
          gets |-> OptionGets(m, pm)]

\* the modes the callbacks of the current simulation ran in (its start and its
\* ticks) and the number of its ticks, a tick being a callback on an active session
RunAfter(clicks, m, pm, r) ==
    IF clicks = 0 /\ ~pm.active THEN r
    ELSE IF ~pm.active THEN [modes |-> {m}, ticks |-> 0]
    ELSE [modes |-> r.modes \cup {m}, ticks |-> r.ticks + 1]

\* the unbounded run counts no further than one tick past the longest path
Saturated(r) ==
    IF r.ticks > MaxTourLen + 1 THEN [r EXCEPT !.ticks = MaxTourLen + 1] ELSE r

\* No key of path_based_probabilities or traveler_paths is longer than the longest
\* traveler path, so a visited sequence longer than that is looked up as its last
\* MaxTourLen + 1 places are: the unbounded run keeps only those
Window(seq) == IF Len(seq) > MaxTourLen + 1 THEN Tail(seq) ELSE seq

\* Dash runs the callback and writes its outputs
SimCallback(op, clicks, unbounded) ==
    \E draw \in Draws(clicks, mode, path_memory) :
        LET out == update_simulation(clicks, mode, path_memory, draw)
        IN /\ unbounded \/ Len(out.path_memory.visited) <= MaxVisited
           /\ path_memory' =
                 IF unbounded
                 THEN [out.path_memory EXCEPT !.visited = Window(@)]
                 ELSE out.path_memory
           /\ interval_disabled' = out.disabled
           /\ travel_path' =
                 IF unbounded THEN [out.travel_path EXCEPT !.path = Window(@)]
                 ELSE out.travel_path
           /\ last' = [op |-> op, exc |-> "none"]
           /\ run' = IF unbounded
                     THEN Saturated(RunAfter(clicks, mode, path_memory, run))
                     ELSE RunAfter(clicks, mode, path_memory, run)
           /\ memoryless_probabilities' =
                 AfterGets(memoryless_probabilities,
                           out.gets.memoryless_probabilities)
           /\ path_based_probabilities' =
                 AfterGets(path_based_probabilities,
                           out.gets.path_based_probabilities)
           /\ traveler_paths' = AfterGets(traveler_paths, out.gets.traveler_paths)

\* the callback reads no more of n_clicks than whether it is 0
Clicked(n) == IF n < MaxClicks THEN n + 1 ELSE n

\* Input("start-btn", "n_clicks"): the user presses Start Simulation
PressStart ==
    /\ pc = "simulator"
    /\ n_clicks' = Clicked(n_clicks)
    /\ SimCallback("press", Clicked(n_clicks), FALSE)
    /\ UNCHANGED <<query, groups, todo, pc, sim_counts, app_tables, mode,
                   selected_start_city, clickData>>

\* Input("interval-component", "n_intervals"): the interval fires while enabled
IntervalTick ==
    /\ pc = "simulator"
    /\ ~interval_disabled
    /\ SimCallback("interval", n_clicks, FALSE)
    /\ UNCHANGED <<query, groups, todo, pc, sim_counts, app_tables, mode,
                   selected_start_city, clickData, n_clicks>>

SimInit ==
    /\ \E g \in Datasets(TourPlaces, MaxTourLen) : Served(g, "simulator")
    /\ WidgetsInit(SimStore)
    /\ QueryIdle

\* a run is a run of either application
Init == WalkerInit \/ SimInit

Next == SelectCity \/ MapClick \/ PressStart \/ IntervalTick \/ ChangeMode

Spec == Init /\ [][Next]_vars

\* The same application followed without a cap on the length of visited; the
\* interval component fires every 2000 ms while it is enabled (sim.py:61)
RunPressStart ==
    /\ pc = "simulator"
    /\ n_clicks' = Clicked(n_clicks)
    /\ SimCallback("press", Clicked(n_clicks), TRUE)
    /\ UNCHANGED <<query, groups, todo, pc, sim_counts, app_tables, mode,
                   selected_start_city, clickData>>

RunIntervalTick ==
    /\ pc = "simulator"
    /\ ~interval_disabled
    /\ SimCallback("interval", n_clicks, TRUE)
    /\ UNCHANGED <<query, groups, todo, pc, sim_counts, app_tables, mode,
                   selected_start_city, clickData, n_clicks>>

RunNext == RunPressStart \/ RunIntervalTick \/ ChangeMode

FairSimSpec == SimInit /\ [][RunNext]_vars /\ WF_vars(RunIntervalTick)

(***************************************************************************)
(* Properties of the model builder.                                        *)
(***************************************************************************)
\* the travelers whose path begins with P immediately followed by d
Continuing(P, d) == {t \in Travelers : IsPrefix(Append(P, d), groups[t])}

\* the non-empty sequences some traveler continues from
ContinuedPrefixes ==
    UNION {{SubSeq(groups[t], 1, k) : k \in 1..Len(groups[t]) - 1} : t \in Travelers}

\* a path-based table holds, for every sequence P a traveler continues from and
\* every place d, the number of travelers whose path begins with P followed by d,
\* and has no other key and no other entry
CountsPrefixes(table) ==
    /\ DOMAIN table = {P \in ContinuedPrefixes :
                          \E d \in Places : Continuing(P, d) # {}}
    /\ \A P \in DOMAIN table :
          /\ DOMAIN table[P] = {d \in Places : Continuing(P, d) # {}}
          /\ \A d \in DOMAIN table[P] :
                table[P][d] = Cardinality(Continuing(P, d))

\* C8: once the tables are built, path_based[P][d] of either application is the
\* number of travelers whose path begins with P immediately followed by d; the key
\* is the whole walked history, and exists only if a traveler continues from it.
C8_PathBasedCountsPrefixes ==
    pc = "ready" => /\ CountsPrefixes(path_based_transitions)
                    /\ CountsPrefixes(transition_paths)

\* two travelers share a history of two places and continue from it alike
C8_Witness ==
    /\ pc = "ready"
    /\ \E P \in DOMAIN path_based_transitions :
          /\ Len(P) = 2
          /\ P[1] # P[2]
          /\ \E d \in DOMAIN path_based_transitions[P] :
                path_based_transitions[P][d] = 2

\* the dataset A:[Paris, Rome, Paris, Venice], B:[Paris, Venice], built
ExampleBuilt ==
    /\ pc = "ready"
    /\ groups = [A |-> <<"Paris", "Rome", "Paris", "Venice">>,
                 B |-> <<"Paris", "Venice">>]

ExamplePathBased ==
    /\ path_based_transitions[<<"Paris">>] = [Rome |-> 1, Venice |-> 1]
    /\ path_based_transitions[<<"Paris", "Rome">>] = [Paris |-> 1]
    /\ first_city_probs = [Paris |-> <<2, 2>>]

\* C9 as claimed: on that dataset memoryless[Paris] = {Rome: 1, Venice: 1},
\* path_based[(Paris,)] = {Rome: 1, Venice: 1}, path_based[(Paris, Rome)] =
\* {Paris: 1} and the first-city distribution is {Paris: 1.0}.
C9_ExampleAsClaimed ==
    ExampleBuilt =>
        /\ memoryless_transitions["Paris"] = [Rome |-> 1, Venice |-> 1]
        /\ ExamplePathBased

\* C9, amended: on that dataset memoryless[Paris] = {Rome: 1, Venice: 2} (1/3 and
\* 2/3), since Paris -> Venice is an adjacent pair of both travelers; the
\* path-based entries and the first-city distribution are as claimed.
C9_Example ==
    ExampleBuilt =>
        /\ memoryless_transitions["Paris"] = [Rome |-> 1, Venice |-> 2]
        /\ memoryless_probabilities["Paris"] =
              [Rome |-> <<1, 3>>, Venice |-> <<2, 3>>]
        /\ ExamplePathBased

C9_Witness == ExampleBuilt

\* the number of times a traveler leaves place s, and the number of travelers who
\* continue from the sequence P
Departures(s) ==
    Cardinality({x \in Travelers \X (1..MaxPathLen) :
                    x[2] < Len(groups[x[1]]) /\ groups[x[1]][x[2]] = s})
Continuations(P) ==
    Cardinality({t \in Travelers : Len(groups[t]) > Len(P) /\ IsPrefix(P, groups[t])})

\* every key of probs is a key of counts with a non-empty distribution over the
\* same entries, each entry being its strictly positive count over the key's
\* total outgoing count, so that the numerators sum to the denominator
NormalizedFrom(probs, counts, Total(_)) ==
    /\ DOMAIN probs = DOMAIN counts
    /\ \A k \in DOMAIN probs :
          /\ DOMAIN probs[k] # {}
          /\ DOMAIN probs[k] = DOMAIN counts[k]
          /\ \A d \in DOMAIN probs[k] :
                /\ probs[k][d] = <<counts[k][d], Total(k)>>
                /\ probs[k][d][1] > 0
                /\ probs[k][d][2] > 0
          /\ SumValues([d \in DOMAIN probs[k] |-> probs[k][d][1]]) = Total(k)

\* C12: in both probability tables every probability is count / (total outgoing
\* count of its key), the counts of a key's entries sum to its denominator, every
\* entry is strictly positive and no key has an empty distribution.
C12_Normalized ==
    pc = "ready" =>
        /\ NormalizedFrom(memoryless_probabilities, memoryless_transitions,
                          Departures)
        /\ NormalizedFrom(path_based_probabilities, path_based_transitions,
                          Continuations)

\* Paris is left three times, once for Rome and twice for Venice, and one
\* traveler continues from a two-place prefix
C12_Witness ==
    /\ pc = "ready"
    /\ "Paris" \in DOMAIN memoryless_probabilities
    /\ DOMAIN memoryless_probabilities["Paris"] = {"Rome", "Venice"}
    /\ memoryless_probabilities["Paris"]["Rome"] = <<1, 3>>
    /\ memoryless_probabilities["Paris"]["Venice"] = <<2, 3>>
    /\ \E P \in DOMAIN path_based_probabilities : Len(P) = 2

(***************************************************************************)
(* Properties of the interactive walker.                                   *)
(***************************************************************************)
\* the distribution a walker step is documented to validate a candidate against:
\* path_based[tuple(visited)] or memoryless[current] of the stored session
StoredDistribution(m, pm) ==
    IF m = "path-based"
    THEN Get(transition_paths, pm.visited, EmptyDict)
    ELSE Get(app_memoryless_transitions, pm.current, EmptyDict)

\* a step of the walker: update_map has run (a mode change runs no callback)
WalkerStep == pc = "walker" /\ mode' = mode

\* the step's click data carries a candidate city
WellFormed(cd) == HasPoints(cd) /\ ClickedCity(cd).exc = "none"

\* the step carries click data that is malformed, or whose candidate is no key of
\* the stored session's distribution
InvalidClick(cd, m, pm) ==
    /\ cd.kind # "None"
    /\ \/ ~WellFormed(cd)
       \/ ClickedCity(cd).city \notin DOMAIN StoredDistribution(m, pm)

\* C1: a walker step whose clicked candidate is no key of the active distribution
\* of the stored session, or whose click data is malformed, returns the stored
\* session unchanged and raises no error.
C1_InvalidClickIsNoOp ==
    [][(WalkerStep /\ InvalidClick(clickData', mode, path_memory))
         => (path_memory' = path_memory /\ last'.exc = "none")]_vars

\* C2 as claimed: a step with candidate c extends the session iff c is a key of
\* the distribution of the stored (pre-step) session; then exactly c is appended
\* and becomes current.
C2_ExtendsIffKeyOfStored ==
    [][(WalkerStep /\ WellFormed(clickData'))
         => LET c == ClickedCity(clickData').city
            IN IF c \in DOMAIN StoredDistribution(mode, path_memory)
               THEN /\ path_memory'.visited = Append(path_memory.visited, c)
                    /\ path_memory'.current = c
               ELSE path_memory' = path_memory]_vars

\* C2, amended: with a start city selected and a non-empty stored session, a step
\* with candidate c extends the session iff c is a key of the stored session's
\* distribution, appending exactly c and making it current; on the empty stored
\* session the step first records the selected start city and validates c against
\* the distribution of that one-city session; with no start city selected the
\* step changes nothing.
C2_ExtendsIffKey ==
    [][(WalkerStep /\ WellFormed(clickData'))
         => LET c == ClickedCity(clickData').city
                s == selected_start_city'
                begun == IF path_memory.visited = <<>>
                         THEN [visited |-> <<s>>, current |-> s]
                         ELSE path_memory
            IN IF s = None THEN path_memory' = path_memory
               ELSE IF c \in DOMAIN StoredDistribution(mode, begun)
               THEN /\ path_memory'.visited = Append(begun.visited, c)
                    /\ path_memory'.current = c
               ELSE path_memory' = begun]_vars

\* a click on a candidate has extended a session of one city
C2_Witness ==
    /\ pc = "walker"
    /\ last = [op |-> "click", exc |-> "none"]
    /\ WellFormed(clickData)
    /\ Len(path_memory.visited) = 2
    /\ Last(path_memory.visited) = ClickedCity(clickData).city
    /\ ClickedCity(clickData).city
         \in DOMAIN StoredDistribution(mode, [visited |-> <<path_memory.visited[1]>>,
                                              current |-> path_memory.visited[1]])

\* C17: visited only grows at its end: over every callback, and over a change of
\* the mode, the previous visited is a prefix of the new one, at most one city
\* longer; a recorded first city stays visited[0], also when another start city
\* is selected.
C17_VisitedOnlyGrows ==
    [][pc = "walker"
         => /\ IsPrefix(path_memory.visited, path_memory'.visited)
            /\ Len(path_memory'.visited) <= Len(path_memory.visited) + 1
                   \/ path_memory.visited = <<>>
            /\ path_memory.visited # <<>>
                  => path_memory'.visited[1] = path_memory.visited[1]]_vars

\* a session of two cities after a start city other than its first was selected,
\* in the mode the user changed to
C17_Witness ==
    /\ pc = "walker"
    /\ last = [op |-> "select", exc |-> "none"]
    /\ mode = "path-based"
    /\ Len(path_memory.visited) = 2
    /\ selected_start_city \notin {None, path_memory.visited[1]}

\* C18: a callback fired by a change of the start-city dropdown, the click data
\* still holding a click that a callback with a start city selected has already
\* processed, appends no city to a visited sequence that is not empty.
C18_DropdownChangeAppendsNothing ==
    [][(/\ WalkerStep
        /\ selected_start_city' # selected_start_city
        /\ selected_start_city # None
        /\ clickData' = clickData
        /\ path_memory.visited # <<>>)
         => path_memory'.visited = path_memory.visited]_vars

(***************************************************************************)
(* Properties of the simulator.                                            *)
(***************************************************************************)
\* the distribution a tick is documented to sample from: memoryless[current] or
\* path_based[tuple(visited)] of the stored session, as counts
ActiveCounts(m, pm) ==
    IF m = "path-based"
    THEN Get(path_based_transitions, pm.visited, EmptyDict)
    ELSE Get(memoryless_transitions, pm.current, EmptyDict)

\* a step of the simulator: update_simulation has run
SimStep == pc = "simulator" /\ mode' = mode

\* the first stops of the travelers
FirstStops == {groups[t][1] : t \in Travelers}

\* C3: a tick of a running session keeps it active and appends exactly one city
\* when the active distribution is non-empty, and sets active = false, leaving
\* visited and current unchanged, when it is empty.
C3_TickContinuesOrFinishes ==
    [][(SimStep /\ path_memory.active)
         => IF DOMAIN ActiveCounts(mode, path_memory) # {}
            THEN /\ path_memory'.active
                 /\ Len(path_memory'.visited) = Len(path_memory.visited) + 1
                 /\ SubSeq(path_memory'.visited, 1, Len(path_memory.visited))
                      = path_memory.visited
            ELSE /\ ~path_memory'.active
                 /\ path_memory'.visited = path_memory.visited
                 /\ path_memory'.current = path_memory.current]_vars

\* a session that ticks have extended and then finished
C3_Witness ==
    /\ pc = "simulator"
    /\ last.op = "interval"
    /\ ~path_memory.active
    /\ Len(path_memory.visited) >= 2
    /\ travel_path.kind = "complete"

\* C4: a start from the idle or the finished state replaces the session with a
\* fresh one: visited = [s], current = s, active, s the first stop of a traveler.
C4_StartIsFresh ==
    [][(SimStep /\ ~path_memory.active /\ n_clicks' > 0)
         => \E s \in FirstStops :
               /\ path_memory'.visited = <<s>>
               /\ path_memory'.current = s
               /\ path_memory'.active]_vars

\* a second press of the button has restarted a finished simulation
C4_Witness ==
    /\ pc = "simulator"
    /\ last.op = "press"
    /\ n_clicks = 2
    /\ path_memory.active
    /\ Len(path_memory.visited) = 1

\* C5: the city a tick appends is a key of strictly positive count of the active
\* distribution of the pre-tick session; a one-entry distribution yields its entry.
C5_TickDrawsObserved ==
    [][(SimStep /\ path_memory.active /\ path_memory'.active)
         => LET counts == ActiveCounts(mode, path_memory)
                c == Last(path_memory'.visited)
            IN /\ c \in DOMAIN counts
               /\ counts[c] > 0
               /\ Cardinality(DOMAIN counts) = 1 => DOMAIN counts = {c}]_vars

\* a tick has drawn from a distribution of two entries
C5_Witness ==
    /\ pc = "simulator"
    /\ last.op = "interval"
    /\ path_memory.active
    /\ Len(path_memory.visited) = 2
    /\ Cardinality(DOMAIN Get(memoryless_transitions, path_memory.visited[1],
                              EmptyDict)) = 2

\* C6 as claimed: once started, every simulation eventually finishes.
C6_AlwaysFinishes == path_memory.active ~> ~path_memory.active

\* C6, amended: a simulation whose mode stays path-based from some point on
\* eventually finishes; a memoryless simulation over itineraries that hold a
\* cycle can sample forever.
C6_PathBasedFinishes ==
    []<>(~path_memory.active \/ mode # "path-based")

\* a path-based simulation has finished and reported its path
C6_Witness ==
    /\ pc = "simulator"
    /\ ~path_memory.active
    /\ mode = "path-based"
    /\ travel_path.kind = "complete"
    /\ travel_path.path = path_memory.visited
    /\ Len(path_memory.visited) >= 2

\* C7: a simulation that finishes in path-based mode reports a traveler whose whole
\* path equals visited, and "Unknown Traveler" when there is none.
C7_ReportsExactTraveler ==
    [][(SimStep /\ path_memory.active /\ ~path_memory'.active
          /\ mode = "path-based")
         => LET v == path_memory.visited
                matches == {t \in Travelers : groups[t] = v}
            IN /\ travel_path'.kind = "complete"
               /\ travel_path'.path = v
               /\ IF matches # {} THEN travel_path'.traveler \in matches
                  ELSE travel_path'.traveler = "Unknown Traveler"]_vars

\* visited = [Paris, Venice] has been reported as traveler B, whose path it is
C7_Witness ==
    /\ pc = "simulator"
    /\ ~path_memory.active
    /\ groups["A"] = <<"Paris", "Paris", "Venice">>
    /\ groups["B"] = <<"Paris", "Venice">>
    /\ path_memory.visited = <<"Paris", "Venice">>
    /\ travel_path = [kind |-> "complete", path |-> <<"Paris", "Venice">>,
                      traveler |-> "B"]

\* C16: a start-button signal that reaches a running session does not reset it
\* and is handled as a tick is: it appends one city sampled from the active
\* distribution, or finishes the session when that distribution is empty, and
\* the first visited city stays.
C16_PressWhileRunningIsTick ==
    [][(SimStep /\ path_memory.active /\ last'.op = "press")
         => /\ IsPrefix(path_memory.visited, path_memory'.visited)
            /\ path_memory'.visited[1] = path_memory.visited[1]
            /\ path_memory'.mode = path_memory.mode
            /\ run'.ticks = run.ticks + 1
            /\ IF DOMAIN ActiveCounts(mode, path_memory) # {}
               THEN /\ path_memory'.active
                    /\ Len(path_memory'.visited) = Len(path_memory.visited) + 1
                    /\ Last(path_memory'.visited)
                          \in DOMAIN ActiveCounts(mode, path_memory)
                    /\ path_memory'.current = Last(path_memory'.visited)
                    /\ ~interval_disabled'
               ELSE /\ ~path_memory'.active
                    /\ path_memory'.visited = path_memory.visited
                    /\ interval_disabled'
                    /\ travel_path'.kind = "complete"]_vars

\* the second press of the button was the first tick of the running session
C16_Witness ==
    /\ pc = "simulator"
    /\ last.op = "press"
    /\ n_clicks = 2
    /\ run.ticks = 1
    /\ path_memory.active
    /\ Len(path_memory.visited) = 2

\* the length of the longest traveler path
LongestPath ==
    CHOOSE n \in {Len(groups[t]) : t \in Travelers} :
        \A t \in Travelers : Len(groups[t]) <= n

\* v is a non-empty prefix of the historical path of at least one traveler
IsTravelerPrefix(v) == v # <<>> /\ \E t \in Travelers : IsPrefix(v, groups[t])

\* the current simulation was started in path-based mode and every tick of it
\* ran in path-based mode
PathBasedRun == pc = "simulator" /\ run.modes = {"path-based"}

\* C14: in a simulation whose mode is path-based at the start and at every tick,
\* visited is at every state a non-empty prefix of some traveler's path, so it is
\* never longer than the longest traveler path, and the simulation has finished
\* by its (longest path length)-th tick.
C14_PathBasedStaysOnPaths ==
    PathBasedRun =>
        /\ IsTravelerPrefix(path_memory.visited)
        /\ Len(path_memory.visited) <= LongestPath
        /\ run.ticks <= LongestPath
        /\ path_memory.active => run.ticks < LongestPath

\* a path-based simulation that finished on its third tick, on a path of three
C14_Witness ==
    /\ PathBasedRun
    /\ ~path_memory.active
    /\ run.ticks = 3
    /\ Len(path_memory.visited) = 3
    /\ LongestPath = 3

\* C15: in a simulation whose mode is path-based at the start and at every tick,
\* the finished state reports a real traveler, whose complete path visited is,
\* and never "Unknown Traveler".
C15_FinishReportsRealTraveler ==
    (PathBasedRun /\ ~path_memory.active) =>
        /\ travel_path.kind = "complete"
        /\ travel_path.path = path_memory.visited
        /\ travel_path.traveler # "Unknown Traveler"
        /\ travel_path.traveler \in Travelers
        /\ groups[travel_path.traveler] = path_memory.visited
        /\ \A t \in Travelers :
              IsPrefix(path_memory.visited, groups[t])
                 => groups[t] = path_memory.visited

\* a path-based simulation finished on B's two-place path while A's is longer
C15_Witness ==
    /\ PathBasedRun
    /\ ~path_memory.active
    /\ travel_path.traveler = "B"
    /\ Len(path_memory.visited) = 2
    /\ Len(groups["A"]) = 3

(***************************************************************************)
(* Properties of both applications.                                        *)
(***************************************************************************)
\* C10: after any sequence of callbacks of either application the session has
\* visited empty and current None, or current equal to the last element of visited.
C10_CurrentIsLastVisited ==
    pc \in {"walker", "simulator"} =>
        \/ path_memory.visited = <<>> /\ path_memory.current = None
        \/ /\ path_memory.visited # <<>>
           /\ path_memory.current = Last(path_memory.visited)

\* a session of either application that has been extended
C10_Witness ==
    /\ pc = "simulator"
    /\ path_memory.active
    /\ Len(path_memory.visited) = 3
    /\ last.op = "interval"

\* the key the stored session asks the mode's table for was never seen
WalkerUnseen ==
    IF mode = "path-based"
    THEN path_memory.visited \notin DOMAIN transition_paths
    ELSE path_memory.current \notin DOMAIN app_memoryless_transitions
SimUnseen ==
    IF mode = "memoryless"
    THEN path_memory.current \notin DOMAIN memoryless_probabilities
    ELSE path_memory.visited \notin DOMAIN path_based_probabilities

\* C13: every step, tick and start leaves the transition tables, the first-city
\* distribution and the traveler-path index as they were; a lookup of a place or
\* prefix that was never seen inserts no key and is terminal: the tick finishes
\* the simulation and the walker's step appends nothing.
C13_LookupsInsertNothing ==
    [][/\ tables' = tables
       /\ groups' = groups
       /\ (SimStep /\ path_memory.active /\ SimUnseen)
             => /\ ~path_memory'.active
                /\ path_memory'.visited = path_memory.visited
       /\ (WalkerStep /\ path_memory.visited # <<>> /\ WalkerUnseen)
             => path_memory'.visited = path_memory.visited]_vars

\* a memoryless simulation that a tick has finished on a place no traveler leaves
C13_Witness ==
    /\ pc = "simulator"
    /\ run.modes = {"memoryless"}
    /\ run.ticks = 2
    /\ ~path_memory.active
    /\ travel_path.kind = "complete"
    /\ path_memory.current \notin DOMAIN memoryless_probabilities
    /\ path_memory.current \notin DOMAIN memoryless_transitions

(***************************************************************************)
(* Properties of the top-N query.                                          *)
(***************************************************************************)
Listed == {<<top_destinations[i].place, top_destinations[i].count>> :
              i \in 1..Len(top_destinations)}
Omitted == {destinations[i] : i \in 1..Len(destinations)} \ Listed

\* C11: the markers shown are min(5, number of entries) distinct entries of the
\* distribution, in non-increasing count order; no omitted entry has a count
\* greater than a listed one; each percentage is 100 * count over the total count
\* of all entries of the distribution; an empty distribution shows none.
C11_TopNQuery ==
    pc = "shown" =>
        /\ Len(top_destinations) <= TopN
        /\ Len(top_destinations) <= Len(destinations)
        /\ Len(top_destinations) = TopN \/ Len(top_destinations) = Len(destinations)
        /\ Listed \subseteq {destinations[i] : i \in 1..Len(destinations)}
        /\ Cardinality(Listed) = Len(top_destinations)
        /\ \A i \in 1..Len(top_destinations) - 1 :
              top_destinations[i].count >= top_destinations[i + 1].count
        /\ \A o \in Omitted : \A l \in Listed : o[2] <= l[2]
        /\ \A i \in 1..Len(top_destinations) :
              top_destinations[i].probability =
                 <<top_destinations[i].count * 100, SumCounts(destinations)>>
        /\ destinations = <<>> => top_destinations = <<>>

\* six entries, the first of count 1 and the last of count 2: five are shown, the
\* last among them, and an entry of count 1 is left out
C11_Witness ==
    /\ pc = "shown"
    /\ Len(destinations) = 6
    /\ destinations[1][2] = 1
    /\ destinations[6][2] = 2
    /\ Len(top_destinations) = 5
    /\ Omitted # {}

====
